---- MODULE Spec2Model ----
(***************************************************************************)
(* A model of the LC-3 virtual machine of VirtualMachine/lc3_vm.cpp: the   *)
(* image loader, the terminal set-up and interrupt handler, the memory     *)
(* with its memory-mapped keyboard registers, and the fetch / decode /     *)
(* execute loop of main.                                                   *)
(*                                                                         *)
(* Words are naturals below 2^16 and every assignment to a uint16_t is     *)
(* reduced modulo 2^16.  The 65536-cell memory array is kept as a function *)
(* whose domain holds exactly the non-zero cells; every other cell reads   *)
(* as zero, which is the value the zero-initialised global array holds.    *)
(* The host is little-endian, as the loader's own comment states.          *)
(***************************************************************************)
EXTENDS Integers, Sequences, FiniteSets, TLC

(***************************************************************************)
(* Program constants                                                       *)
(***************************************************************************)
MEMORY_MAX == 65536

R_R0 == 0
R_R7 == 7
R_PC == 8
R_COND == 9
R_COUNT == 10

MR_KBSR == 65024
MR_KBDR == 65026

OP_BR == 0
OP_ADD == 1
OP_LD == 2
OP_ST == 3
OP_JSR == 4
OP_AND == 5
OP_LDR == 6
OP_STR == 7
OP_RTI == 8
OP_NOT == 9
OP_LDI == 10
OP_STI == 11
OP_JMP == 12
OP_RES == 13
OP_LEA == 14
OP_TRAP == 15

FL_POS == 1
FL_ZRO == 2
FL_NEG == 4

TRAP_GETC == 32
TRAP_OUT == 33
TRAP_PUTS == 34
TRAP_IN == 35
TRAP_PUTSP == 36
TRAP_HALT == 37

PC_START == 12288
EOF == -1
SIGINT == 2

(***************************************************************************)
(* Bounds of the model                                                     *)
(***************************************************************************)
\* instructions the loop may fetch in one run
MaxSteps == 8
\* characters waiting on standard input when the machine starts
MaxKeys == 1
\* bytes of the images the loader is checked on
MaxImageBytes == 6

(***************************************************************************)
(* C integer operations on naturals                                        *)
(***************************************************************************)
RECURSIVE Pow2(_)
Pow2(n) == IF n = 0 THEN 1 ELSE 2 * Pow2(n - 1)

\* x >> n
Shr(x, n) == x \div Pow2(n)

\* x << n, in int (the operands are promoted; no word here reaches 2^31)
Shl(x, n) == x * Pow2(n)

RECURSIVE BitAnd(_, _)
BitAnd(a, b) ==
    IF a = 0 \/ b = 0 THEN 0
    ELSE (a % 2) * (b % 2) + 2 * BitAnd(a \div 2, b \div 2)

RECURSIVE BitOr(_, _)
BitOr(a, b) ==
    IF a = 0 THEN b
    ELSE IF b = 0 THEN a
    ELSE (IF a % 2 = 1 \/ b % 2 = 1 THEN 1 ELSE 0) + 2 * BitOr(a \div 2, b \div 2)

\* the number of values of a uint16_t
WORD == Pow2(16)

\* conversion of an int to uint16_t
U16(x) == x % WORD

\* ~x stored into a uint16_t
BitNot16(x) == U16(-x - 1)

(***************************************************************************)
(* VM utils                                                                *)
(***************************************************************************)
swap_byte_layout16(val) == U16(BitOr(Shl(val, 8), Shr(val, 8)))

\* (0xFFFF < bit_count) is a comparison: it yields 0 or 1, and here always 0
\* a variant of sign_extend_bits that returns the sign bit of the field
sign_extend_bits_SignOnly(bit_count, value) == BitAnd(Shr(value, bit_count - 1), 1)

sign_extend_bits(bit_count, value) ==
    IF BitAnd(Shr(value, bit_count - 1), 1) # 0
    THEN U16(BitOr(value, IF 65535 < bit_count THEN 1 ELSE 0))
    ELSE value

\* a mutant: the zero test is missing, and no flag is set for zero
CondFlag_NoZero(value) ==
    IF value = 0 THEN 0
    ELSE IF Shr(value, 15) # 0 THEN FL_NEG
    ELSE FL_POS

\* the value update_cond_flag stores in registers[R_COND] for a register value
CondFlag(value) ==
    IF value = 0 THEN FL_ZRO
    ELSE IF Shr(value, 15) # 0 THEN FL_NEG
    ELSE FL_POS

\* a mutant: the flag is always taken from R0
update_cond_flag_R0(regs, reg) == [regs EXCEPT ![R_COND] = CondFlag(regs[R_R0])]

update_cond_flag(regs, reg) == [regs EXCEPT ![R_COND] = CondFlag(regs[reg])]

(***************************************************************************)
(* Memory: the cells that are not zero                                     *)
(***************************************************************************)
ZeroMemory == [a \in {} |-> 0]

MemGet(m, a) == IF a \in DOMAIN m THEN m[a] ELSE 0

\* memory[a] = v
MemSet(m, a, v) ==
    IF v = 0
    THEN [x \in (DOMAIN m) \ {a} |-> m[x]]
    ELSE [x \in (DOMAIN m) \cup {a} |-> IF x = a THEN v ELSE m[x]]

\* a variant of memory_write that writes the following cell as well
memory_write_Smear(m, data, address) ==
    MemSet(MemSet(m, address, data), (address + 1) % MEMORY_MAX, data)

\* a variant of memory_write that drops the store
memory_write_Dropped(m, data, address) == m

memory_write(m, data, address) == MemSet(m, address, data)

(***************************************************************************)
(* Standard input: the characters waiting, and whether end-of-file follows *)
(* them (a pipe) or nothing does (a terminal nobody types on)              *)
(***************************************************************************)
\* select() on stdin with a zero timeout: the number of readable descriptors.
\* A descriptor is readable when a read would not block: a character is
\* waiting, or the input is at end-of-file.
check_keypress(in, eof) == IF Len(in) > 0 \/ eof THEN 1 ELSE 0

\* getchar() returns without blocking: a character, or EOF at end-of-file
GetcharReady(in, eof) == Len(in) > 0 \/ eof

GetcharValue(in) == IF Len(in) > 0 THEN Head(in) ELSE EOF

GetcharRest(in) == IF Len(in) > 0 THEN Tail(in) ELSE in

\* memory_read: the memory, the input left and the value returned
memory_read(m, in, eof, address) ==
    IF address = MR_KBSR
    THEN IF check_keypress(in, eof) # 0
         THEN LET m1 == MemSet(m, MR_KBSR, Shl(1, 15))
                  m2 == MemSet(m1, MR_KBDR, U16(GetcharValue(in)))
              IN  [mem |-> m2, in |-> GetcharRest(in), val |-> MemGet(m2, address)]
         ELSE LET m1 == MemSet(m, MR_KBSR, 0)
              IN  [mem |-> m1, in |-> in, val |-> MemGet(m1, address)]
    ELSE [mem |-> m, in |-> in, val |-> MemGet(m, address)]

(***************************************************************************)
(* The image file: a sequence of bytes                                     *)
(***************************************************************************)
Min(a, b) == IF a < b THEN a ELSE b

\* fread(ptr, sizeof(uint16_t), count, file) at byte offset pos: the items read
FreadItems(bytes, pos, count) == Min(count, (Len(bytes) - pos) \div 2)

\* item i of an fread at byte offset pos, as the little-endian host stores it
HostWord(bytes, pos, i) == bytes[pos + 2 * i + 1] + 256 * bytes[pos + 2 * i + 2]

\* A trailing single byte makes fread read a partial element, whose value is
\* indeterminate: the element is left as it was, or its first byte (the low
\* byte on this host) is overwritten.
PartialItem(old, byte) == {old, 256 * (old \div 256) + byte}

\* the values `origin` may hold after fread(&origin, sizeof(uint16_t), 1, file)
ImageOrigins(bytes) ==
    IF FreadItems(bytes, 0, 1) = 1 THEN {HostWord(bytes, 0, 0)}
    ELSE IF Len(bytes) = 1 THEN PartialItem(0, bytes[1])
    ELSE {0}

\* byte offset of the file after the first fread
ImageDataPos(bytes) == Min(Len(bytes), 2)

\* the words the second fread reads
ImageLines(bytes, origin) == FreadItems(bytes, ImageDataPos(bytes), MEMORY_MAX - origin)

\* the second fread stops inside an element
ImageHasPartial(bytes, origin) ==
    /\ ImageLines(bytes, origin) < MEMORY_MAX - origin
    /\ (Len(bytes) - ImageDataPos(bytes)) % 2 = 1

\* the values the cell after the last whole word may hold
ImagePartials(m, bytes, origin) ==
    IF ImageHasPartial(bytes, origin)
    THEN PartialItem(MemGet(m, origin + ImageLines(bytes, origin)), bytes[Len(bytes)])
    ELSE {0}

\* read_image_file: the memory after the second fread and the swap loop
read_image_file(m, bytes, origin, partial) ==
    LET pos == ImageDataPos(bytes)
        n == ImageLines(bytes, origin)
        lines_read == U16(n)
        cell(i) == IF i < lines_read
                   THEN swap_byte_layout16(HostWord(bytes, pos, i))
                   ELSE HostWord(bytes, pos, i)
        range == origin .. (origin + n - 1)
        set == {a \in range : cell(a - origin) # 0}
        m1 == [a \in ((DOMAIN m) \ range) \cup set |->
                  IF a \in range THEN cell(a - origin) ELSE m[a]]
    IN  IF ImageHasPartial(bytes, origin) THEN MemSet(m1, origin + n, partial) ELSE m1

(***************************************************************************)
(* Terminal settings (struct termios): the two flags the VM changes, and   *)
(* whether the other fields are the host's or all zero                     *)
(***************************************************************************)
\* the zero-initialised global original_tio
ZeroTio == [icanon |-> FALSE, echo |-> FALSE, rest |-> "zero"]

\* the settings of the terminal the VM is started on
HostTio == [icanon |-> TRUE, echo |-> TRUE, rest |-> "host"]

\* new_tio.c_lflag &= ~ICANON & ~ECHO
RawTio(t) == [t EXCEPT !.icanon = FALSE, !.echo = FALSE]

(***************************************************************************)
(* Inputs: the command line, the image file, standard input                *)
(***************************************************************************)
\* the two bytes of a word in an image file, high byte first
WordBytes(w) == <<w \div 256, w % 256>>

\* the first two bytes of an image that this loader places at 0x3000
OriginBytes == <<0, 48>>

\* Instruction and data words the program images are made of
InstrWords ==
    { 0,        \* BR   nzp=0            (never taken)
      3585,     \* BR   nzp=7, off9=1
      1535,     \* BRz  off9=0x1FF
      2049,     \* BRn  off9=1
      4129,     \* ADD  R0,R0,#1
      4159,     \* ADD  R0,R0,#-1       (imm5 = 0x1F)
      4608,     \* ADD  R1,R0,R0
      20512,    \* AND  R0,R0,#0
      21055,    \* AND  R1,R0,#-1       (imm5 = 0x1F)
      36927,    \* NOT  R0,R0
      37439,    \* NOT  R1,R0
      49152,    \* JMP  R0
      49600,    \* JMP  R7 (RET)
      18433,    \* JSR  off11=1
      20479,    \* JSR  off11=0x7FF
      16384,    \* JSRR R0
      16832,    \* JSRR R7
      8704,     \* LD   R1,#0
      12288,    \* ST   R0,#0           (also the address 0x3000)
      41472,    \* LDI  R1,#0
      45056,    \* STI  R0,#0
      45567,    \* STI  R0,#-1          (off9 = 0x1FF)
      25088,    \* LDR  R1,R0,#0
      29184,    \* STR  R1,R0,#0
      57344,    \* LEA  R0,#0
      57855,    \* LEA  R0,#-1          (off9 = 0x1FF)
      32768,    \* RTI
      53248,    \* reserved opcode 0xD
      61472,    \* TRAP x20 GETC
      61473,    \* TRAP x21 OUT
      61474,    \* TRAP x22 PUTS
      61475,    \* TRAP x23 IN
      61476,    \* TRAP x24 PUTSP
      61477,    \* TRAP x25 HALT
      61729,    \* TRAP with bits 8..0 = 0x121
      61733,    \* TRAP with bits 8..0 = 0x125
      65024,    \* the address of KBSR  (as an instruction: TRAP x00)
      65026 }   \* the address of KBDR  (as an instruction: TRAP x02)

\* program images: two words placed at 0x3000
ProgramImages ==
    {OriginBytes \o WordBytes(a) \o WordBytes(b) : a \in InstrWords, b \in InstrWords}

\* the image that places the words ws at 0x3000
ImageOf(ws) ==
    OriginBytes
      \o [i \in 1 .. 2 * Len(ws) |->
            IF i % 2 = 1 THEN ws[(i + 1) \div 2] \div 256 ELSE ws[i \div 2] % 256]

\* NOT R0,R0; ST R0,#1; LD R1,#0: a store and a load of the cell 0x3003
StoreLoadWords == <<36927, 12289, 8704>>

\* a program that writes ST R1,#1; LD R2,#0 to 0xFDFE, 0xFDFF and jumps there,
\* a store and a load of KBSR:
\*   0x3000 LD  R1,#5    0x3001 STI R1,#6    0x3002 LD  R1,#4
\*   0x3003 STI R1,#5    0x3004 LD  R0,#3    0x3005 JMP R0
\*   0x3006 ST R1,#1     0x3007 LD R2,#0     0x3008 0xFDFE     0x3009 0xFDFF
StoreLoadKbsrWords ==
    <<8709, 45574, 8708, 45573, 8195, 49152, 12801, 9216, 65022, 65023>>

\* NOT R0,R0; STR R0,R0,#0; TRAP x22: PUTS of the string at 0xFFFF, where no
\* zero word follows before the end of memory
PutsAtTopWords == <<36927, 28672, 61474>>

\* one instruction for every value of every immediate field that is
\* sign-extended: ADD R0,R0,#imm5; LDR R1,R0,#off6; LEA R0,#off9; JSR off11
FieldWords ==
    {4128 + v : v \in 0 .. 31} \cup {25088 + v : v \in 0 .. 63}
      \cup {57344 + v : v \in 0 .. 511} \cup {18432 + v : v \in 0 .. 2047}

\* an image of 65536 words for origin 0, the most the loader reads: the first
\* word is 0x0001, the others are zero
FullImage == [i \in 1 .. 2 + 2 * MEMORY_MAX |-> IF i = 4 THEN 1 ELSE 0]

\* programs of one word
OneWordImages == {ImageOf(<<w>>) : w \in FieldWords}

\* programs of more than two words
LongImages ==
    {ImageOf(StoreLoadWords), ImageOf(StoreLoadKbsrWords), ImageOf(PutsAtTopWords)}

\* the byte values the loader's images are made of
ImageBytes == {0, 48, 255}

RECURSIVE SeqsUpTo(_, _)
SeqsUpTo(S, n) ==
    IF n = 0 THEN {<< >>}
    ELSE LET shorter == SeqsUpTo(S, n - 1)
         IN  shorter \cup {Append(q, x) : q \in shorter, x \in S}

\* the image of the minimal program: 30 00 F0 25
SeedImage == <<48, 0, 240, 37>>

\* images for the loader: every short byte sequence, whole or cut short
LoaderImages == SeqsUpTo(ImageBytes, MaxImageBytes) \cup {SeedImage}

\* characters standard input may hold
KeyChars == {0, 97}

Inputs ==
    [argc : {2}, exists : {TRUE}, bytes : ProgramImages,
     stdin : SeqsUpTo(KeyChars, MaxKeys), eof : BOOLEAN]
    \cup [argc : {2}, exists : {TRUE}, bytes : LongImages,
          stdin : SeqsUpTo(KeyChars, MaxKeys), eof : {FALSE}]
    \cup [argc : {2}, exists : {TRUE}, bytes : OneWordImages, stdin : {<< >>}, eof : {FALSE}]
    \cup [argc : {2}, exists : {TRUE}, bytes : LoaderImages \cup {FullImage},
          stdin : {<< >>}, eof : {FALSE}]
    \cup [argc : {1, 2}, exists : {FALSE}, bytes : {<< >>}, stdin : {<< >>}, eof : {FALSE}]

(***************************************************************************)
(* State                                                                   *)
(***************************************************************************)
VARIABLES
    argc,           \* main's argc
    file,           \* the image file: [exists, bytes]
    stdin,          \* characters waiting on standard input
    stdin_eof,      \* end-of-file follows them
    memory,         \* uint16_t memory[MEMORY_MAX]
    registers,      \* uint16_t registers[R_COUNT]
    original_tio,   \* struct termios original_tio
    tio,            \* the settings the terminal is in
    handler,        \* interrupt_handler is registered for SIGINT
    ctl,            \* where main is
    run,            \* main's local run
    instruction,    \* main's local instruction
    steps,          \* instructions fetched
    exit_code,      \* << >> while the process runs, then <<its exit status>>
    out             \* what was written to standard output

vars == <<argc, file, stdin, stdin_eof, memory, registers, original_tio, tio,
          handler, ctl, run, instruction, steps, exit_code, out>>

\* exit_code while the process runs
NoExit == << >>

\* exit_code after exit(n): the status the parent sees
ExitStatus(n) == <<n % 256>>

Cout(text, args) == [cout |-> text, args |-> args]

Putc(byte) == [putc |-> byte]

Init ==
    \E i \in Inputs :
        /\ argc = i.argc
        /\ file = [exists |-> i.exists, bytes |-> i.bytes]
        /\ stdin = i.stdin
        /\ stdin_eof = i.eof
        /\ memory = ZeroMemory
        /\ registers = [r \in 0 .. R_COUNT - 1 |-> 0]
        /\ original_tio = ZeroTio
        /\ tio = HostTio
        /\ handler = FALSE
        /\ ctl = "main"
        /\ run = FALSE
        /\ instruction = 0
        /\ steps = 0
        /\ exit_code = NoExit
        /\ out = << >>

(***************************************************************************)
(* main, up to the instruction loop                                        *)
(***************************************************************************)
\* if (argc < 2) { usage; exit(2); }
Usage ==
    /\ ctl = "main"
    /\ argc < 2
    /\ out' = Append(out, Cout("Usage: lc3 <image-file>", << >>))
    /\ ctl' = "exited"
    /\ exit_code' = ExitStatus(2)
    /\ UNCHANGED <<argc, file, stdin, stdin_eof, memory, registers, original_tio,
                   tio, handler, run, instruction, steps>>

\* load_image returns false: fopen failed
LoadImageFails ==
    /\ ctl = "main"
    /\ ~(argc < 2)
    /\ ~file.exists
    /\ out' = out \o <<Cout("Image path: ", << >>), Cout("LC3 image load failed", << >>)>>
    /\ ctl' = "exited"
    /\ exit_code' = ExitStatus(1)
    /\ UNCHANGED <<argc, file, stdin, stdin_eof, memory, registers, original_tio,
                   tio, handler, run, instruction, steps>>

\* load_image returns true: the file opened, read_image_file ran
LoadImage ==
    /\ ctl = "main"
    /\ ~(argc < 2)
    /\ file.exists
    /\ \E origin \in ImageOrigins(file.bytes) :
         \E partial \in ImagePartials(memory, file.bytes, origin) :
            /\ memory' = read_image_file(memory, file.bytes, origin, partial)
            /\ out' = out \o
                 <<Cout("Image path: ", << >>),
                   Cout("Loaded image file into memory, size: ",
                        <<U16(ImageLines(file.bytes, origin)) * 2>>)>>
    /\ ctl' = "loaded"
    /\ UNCHANGED <<argc, file, stdin, stdin_eof, registers, original_tio, tio,
                   handler, run, instruction, steps, exit_code>>

\* signal(SIGINT, interrupt_handler)
RegisterHandler ==
    /\ ctl = "loaded"
    /\ handler' = TRUE
    /\ ctl' = "registered"
    /\ UNCHANGED <<argc, file, stdin, stdin_eof, memory, registers, original_tio,
                   tio, run, instruction, steps, exit_code, out>>

disable_input_buffering ==
    /\ ctl = "registered"
    /\ original_tio' = tio
    /\ tio' = RawTio(tio)
    /\ ctl' = "raw"
    /\ UNCHANGED <<argc, file, stdin, stdin_eof, memory, registers, handler, run,
                   instruction, steps, exit_code, out>>

\* registers[R_COND] = FL_ZRO; registers[R_PC] = 0x3000; bool run = true
InitRegisters ==
    /\ ctl = "raw"
    /\ registers' = [registers EXCEPT ![R_COND] = FL_ZRO, ![R_PC] = PC_START]
    /\ out' = Append(out, Cout("LC-3 VM started...", << >>))
    /\ run' = TRUE
    /\ ctl' = "loop"
    /\ UNCHANGED <<argc, file, stdin, stdin_eof, memory, original_tio, tio, handler,
                   instruction, steps, exit_code>>

\* tcsetattr(STDIN_FILENO, TCSANOW, &original_tio): the settings the terminal gets
restore_input_buffering == original_tio

\* interrupt_handler, run when SIGINT arrives while it is registered
interrupt_handler ==
    /\ handler
    /\ ctl # "exited"
    /\ tio' = restore_input_buffering
    /\ out' = Append(out, Cout("Received signal: ", <<SIGINT>>))
    /\ ctl' = "exited"
    /\ exit_code' = ExitStatus(-2)
    /\ UNCHANGED <<argc, file, stdin, stdin_eof, memory, registers, original_tio,
                   handler, run, instruction, steps>>

(***************************************************************************)
(* The instruction cycle                                                   *)
(***************************************************************************)
Opcode(inst) == Shr(inst, 12)

\* the 3-bit field of inst whose lowest bit is bit `low`
Reg3(inst, low) == BitAnd(Shr(inst, low), 7)


\* a mutant: the program counter is left at the fetched instruction
PostIncrement_Stay(pc) == pc

\* registers[R_PC]++ on a uint16_t
PostIncrement(pc) == U16(pc + 1)

\* while (run) { instruction = memory_read(registers[R_PC]++); ... }, and the
\* code after the loop when run is false
Fetch ==
    /\ ctl = "loop"
    /\ steps < MaxSteps
    /\ IF run
       THEN LET r == memory_read(memory, stdin, stdin_eof, registers[R_PC])
            IN  /\ registers' = [registers EXCEPT ![R_PC] = PostIncrement(registers[R_PC])]
                /\ memory' = r.mem
                /\ stdin' = r.in
                /\ instruction' = r.val
                /\ out' = Append(out, Cout("opcode instruction", <<Opcode(r.val), r.val>>))
                /\ steps' = steps + 1
                /\ ctl' = "exec"
                /\ UNCHANGED <<tio, exit_code>>
       ELSE /\ tio' = restore_input_buffering
            /\ ctl' = "exited"
            /\ exit_code' = ExitStatus(0)
            /\ UNCHANGED <<registers, memory, stdin, instruction, out, steps>>
    /\ UNCHANGED <<argc, file, stdin_eof, original_tio, handler, run>>

\* what every case of the switch leaves alone, and the break back to while (run)
Break ==
    /\ ctl' = "loop"
    /\ UNCHANGED <<argc, file, stdin_eof, original_tio, tio, handler, run,
                   instruction, steps, exit_code>>

Decoded(op) == ctl = "exec" /\ Opcode(instruction) = op

ExecADD ==
    /\ Decoded(OP_ADD)
    /\ LET imm_mode == BitAnd(Shr(instruction, 5), 1)
           dr == Reg3(instruction, 9)
           sr1 == Reg3(instruction, 6)
           imm5 == sign_extend_bits(5, BitAnd(instruction, 31))
           sr2 == BitAnd(instruction, 7)
           sum == IF imm_mode # 0
                  THEN U16(registers[sr1] + imm5)
                  ELSE U16(registers[sr1] + registers[sr2])
       IN  registers' = update_cond_flag([registers EXCEPT ![dr] = sum], dr)
    /\ Break
    /\ UNCHANGED <<memory, stdin, out>>

ExecAND ==
    /\ Decoded(OP_AND)
    /\ LET imm_mode == BitAnd(Shr(instruction, 5), 1)
           dr == Reg3(instruction, 9)
           sr1 == Reg3(instruction, 6)
           imm5 == sign_extend_bits(5, BitAnd(instruction, 31))
           sr2 == BitAnd(instruction, 7)
           res == IF imm_mode # 0
                  THEN BitAnd(registers[sr1], imm5)
                  ELSE BitAnd(registers[sr1], registers[sr2])
       IN  registers' = update_cond_flag([registers EXCEPT ![dr] = res], dr)
    /\ Break
    /\ UNCHANGED <<memory, stdin, out>>

\* a variant of the branch test that compares nzp with COND for equality
BranchTaken_Equal(nzp, cond) == nzp = cond

\* the branch test: if (nzp & registers[R_COND])
BranchTaken(nzp, cond) == BitAnd(nzp, cond) # 0

ExecBR ==
    /\ Decoded(OP_BR)
    /\ LET nzp == Reg3(instruction, 9)
           pc_offset == BitAnd(instruction, 511)
       IN  registers' =
             IF BranchTaken(nzp, registers[R_COND])
             THEN [registers EXCEPT
                     ![R_PC] = U16(registers[R_PC] + sign_extend_bits(9, pc_offset))]
             ELSE registers
    /\ Break
    /\ UNCHANGED <<memory, stdin, out>>

ExecJMP ==
    /\ Decoded(OP_JMP)
    /\ LET base_reg == Reg3(instruction, 5)
       IN  registers' = [registers EXCEPT ![R_PC] = registers[base_reg]]
    /\ Break
    /\ UNCHANGED <<memory, stdin, out>>

\* a variant of JSRR that reads the base register before R7 is written
JsrrTarget_BeforeSave(before, saved, base) == before[base]

\* JSRR: registers[(instruction >> 6) & 0x07], read once R7 holds the PC
JsrrTarget(before, saved, base) == saved[base]

ExecJSR ==
    /\ Decoded(OP_JSR)
    /\ LET saved == [registers EXCEPT ![R_R7] = registers[R_PC]]
           flag == BitAnd(Shr(instruction, 11), 1)
       IN  registers' =
             IF flag # 0
             THEN [saved EXCEPT
                     ![R_PC] = U16(saved[R_PC]
                                   + sign_extend_bits(11, BitAnd(instruction, 2047)))]
             ELSE [saved EXCEPT
                     ![R_PC] = JsrrTarget(registers, saved, Reg3(instruction, 6))]
    /\ Break
    /\ UNCHANGED <<memory, stdin, out>>

ExecLD ==
    /\ Decoded(OP_LD)
    /\ LET dr == Reg3(instruction, 9)
           pc_offset == sign_extend_bits(9, BitAnd(instruction, 511))
           r == memory_read(memory, stdin, stdin_eof, U16(registers[R_PC] + pc_offset))
       IN  /\ registers' = update_cond_flag([registers EXCEPT ![dr] = r.val], dr)
           /\ memory' = r.mem
           /\ stdin' = r.in
    /\ Break
    /\ UNCHANGED out

ExecLDI ==
    /\ Decoded(OP_LDI)
    /\ LET dr == Reg3(instruction, 9)
           pc_offset == sign_extend_bits(9, BitAnd(instruction, 511))
           p == memory_read(memory, stdin, stdin_eof, U16(registers[R_PC] + pc_offset))
           r == memory_read(p.mem, p.in, stdin_eof, p.val)
       IN  /\ registers' = update_cond_flag([registers EXCEPT ![dr] = r.val], dr)
           /\ memory' = r.mem
           /\ stdin' = r.in
    /\ Break
    /\ UNCHANGED out

ExecLDR ==
    /\ Decoded(OP_LDR)
    /\ LET dr == Reg3(instruction, 9)
           base_r == Reg3(instruction, 6)
           offset == sign_extend_bits(6, BitAnd(instruction, 63))
           r == memory_read(memory, stdin, stdin_eof, U16(registers[base_r] + offset))
       IN  /\ registers' = update_cond_flag([registers EXCEPT ![dr] = r.val], dr)
           /\ memory' = r.mem
           /\ stdin' = r.in
    /\ Break
    /\ UNCHANGED out

ExecLEA ==
    /\ Decoded(OP_LEA)
    /\ LET dr == Reg3(instruction, 9)
           pc_offset == sign_extend_bits(9, BitAnd(instruction, 511))
       IN  registers' =
             update_cond_flag([registers EXCEPT ![dr] = U16(registers[R_PC] + pc_offset)], dr)
    /\ Break
    /\ UNCHANGED <<memory, stdin, out>>

ExecNOT ==
    /\ Decoded(OP_NOT)
    /\ LET dr == Reg3(instruction, 9)
           sr == Reg3(instruction, 6)
       IN  registers' =
             update_cond_flag([registers EXCEPT ![dr] = BitNot16(registers[sr])], dr)
    /\ Break
    /\ UNCHANGED <<memory, stdin, out>>

\* case OP_RES: break
ExecRES ==
    /\ Decoded(OP_RES)
    /\ Break
    /\ UNCHANGED <<registers, memory, stdin, out>>

\* case OP_RTI: break
ExecRTI ==
    /\ Decoded(OP_RTI)
    /\ Break
    /\ UNCHANGED <<registers, memory, stdin, out>>

ExecST ==
    /\ Decoded(OP_ST)
    /\ LET sr == Reg3(instruction, 9)
           pc_offset == sign_extend_bits(9, BitAnd(instruction, 511))
       IN  memory' = memory_write(memory, registers[sr], U16(registers[R_PC] + pc_offset))
    /\ Break
    /\ UNCHANGED <<registers, stdin, out>>

ExecSTI ==
    /\ Decoded(OP_STI)
    /\ LET sr == Reg3(instruction, 9)
           pc_offset == sign_extend_bits(9, BitAnd(instruction, 511))
           p == memory_read(memory, stdin, stdin_eof, U16(registers[R_PC] + pc_offset))
       IN  /\ memory' = memory_write(p.mem, registers[sr], p.val)
           /\ stdin' = p.in
    /\ Break
    /\ UNCHANGED <<registers, out>>

ExecSTR ==
    /\ Decoded(OP_STR)
    /\ LET sr == Reg3(instruction, 8)
           base_r == Reg3(instruction, 6)
           offset == sign_extend_bits(6, BitAnd(instruction, 63))
       IN  memory' = memory_write(memory, registers[sr], U16(registers[base_r] + offset))
    /\ Break
    /\ UNCHANGED <<registers, stdin, out>>

\* The characters TRAP_PUTS writes: the low byte of each word from address a up
\* to the first zero word.  (str_ptr is declared uint16_t in the source; it is
\* read here as the uint16_t* its initialiser and its uses take it for.)  The
\* walk is cut at the end of the memory array.
RECURSIVE PutsBytes(_, _)
PutsBytes(m, a) ==
    IF a >= MEMORY_MAX \/ MemGet(m, a) = 0 THEN << >>
    ELSE <<Putc(MemGet(m, a) % 256)>> \o PutsBytes(m, a + 1)

\* the index at which the walk of TRAP_PUTS from address a reads a zero word,
\* MEMORY_MAX when every word from a to the end of the array is not zero
RECURSIVE PutsEnd(_, _)
PutsEnd(m, a) ==
    IF a >= MEMORY_MAX \/ MemGet(m, a) = 0 THEN a ELSE PutsEnd(m, a + 1)

\* What TRAP_PUTS writes once ++str_ptr has left the memory array: the objects
\* behind the array are read as words, so the walk stops at once or writes
\* further characters first.
PastArrayBytes == {<< >>, <<Putc(255)>>, <<Putc(255), Putc(1)>>}

\* instruction & 0x1FF
TrapCode(inst) == BitAnd(inst, 511)

ExecTRAP ==
    /\ Decoded(OP_TRAP)
    /\ LET saved == [registers EXCEPT ![R_R7] = registers[R_PC]]
           trap_code == TrapCode(instruction)
       IN  CASE trap_code = TRAP_GETC ->
                  /\ GetcharReady(stdin, stdin_eof)
                  /\ registers' = update_cond_flag(
                         [saved EXCEPT ![R_R0] = U16(GetcharValue(stdin))], R_R0)
                  /\ stdin' = GetcharRest(stdin)
                  /\ UNCHANGED out
             [] trap_code = TRAP_OUT ->
                  /\ registers' = saved
                  /\ out' = Append(out, Putc(saved[R_R0] % 256))
                  /\ UNCHANGED stdin
             [] trap_code = TRAP_PUTS ->
                  /\ registers' = saved
                  /\ \E past \in IF PutsEnd(memory, saved[R_R0]) >= MEMORY_MAX
                                 THEN PastArrayBytes ELSE {<< >>} :
                        out' = out \o PutsBytes(memory, saved[R_R0]) \o past
                  /\ UNCHANGED stdin
             [] OTHER ->
                  \* TRAP_IN, TRAP_PUTSP, TRAP_HALT and default: break
                  /\ registers' = saved
                  /\ UNCHANGED <<stdin, out>>
    /\ Break
    /\ UNCHANGED memory

Next ==
    \/ Usage
    \/ LoadImageFails
    \/ LoadImage
    \/ RegisterHandler
    \/ disable_input_buffering
    \/ InitRegisters
    \/ interrupt_handler
    \/ Fetch
    \/ ExecADD
    \/ ExecAND
    \/ ExecBR
    \/ ExecJMP
    \/ ExecJSR
    \/ ExecLD
    \/ ExecLDI
    \/ ExecLDR
    \/ ExecLEA
    \/ ExecNOT
    \/ ExecRES
    \/ ExecRTI
    \/ ExecST
    \/ ExecSTI
    \/ ExecSTR
    \/ ExecTRAP

Spec == Init /\ [][Next]_vars

(***************************************************************************)
(* The claims.  What they expect is written from the specification, with   *)
(* definitions of its own: bit fields by division, flags by comparison,    *)
(* words of the image high byte first.                                     *)
(***************************************************************************)
\* bits hi..lo of a word
Bits(w, hi, lo) == (w \div Pow2(lo)) % Pow2(hi - lo + 1)

\* the flag for the sign of a word: ZRO for 0, NEG when bit 15 is set, else POS
SignFlag(w) == IF w = 0 THEN 2 ELSE IF w >= 32768 THEN 4 ELSE 1

\* the big-endian word at bytes k, k+1
BigEndian(bytes, k) == 256 * bytes[k] + bytes[k + 1]

\* the loop has just executed the instruction it fetched
Executed == ctl = "loop" /\ steps > 0

\* the interrupt handler ended the process
HandlerExited == ctl = "exited" /\ exit_code = <<254>>

\* C1: once TRAP x25 (HALT) has executed, the loop terminates: the only step
\* from there ends the process, status 0 with the terminal restored (or the
\* interrupt handler's exit), and no further instruction is fetched.
C1_HaltTerminates ==
    [][(Executed /\ instruction = 61477)
         => /\ ctl' = "exited"
            /\ \/ exit_code' = <<0>> /\ tio' = HostTio
               \/ HandlerExited']_vars

\* an illegal instruction: RTI, the reserved opcode, or a TRAP whose vector is
\* not one of 0x20..0x25
Illegal(inst) ==
    \/ Bits(inst, 15, 12) = 8
    \/ Bits(inst, 15, 12) = 13
    \/ Bits(inst, 15, 12) = 15 /\ Bits(inst, 7, 0) \notin 32 .. 37

\* C2: executing an illegal instruction is fatal: the step that executes it ends
\* the process with a non-zero status, so no following instruction is fetched.
C2_IllegalIsFatal ==
    [][(ctl = "exec" /\ Illegal(instruction))
         => (ctl' = "exited" /\ exit_code' # <<0>>)]_vars

\* C3: from the initialisation of the registers on, COND holds exactly one of
\* 1 (POS), 2 (ZRO), 4 (NEG).
C3_CondOneHot == run => registers[R_COND] \in {1, 2, 4}

\* C3 witness: an instruction has made COND negative
C3_Witness == Executed /\ registers[R_COND] = 4 /\ Bits(instruction, 15, 12) = 9

\* the instructions that write the register named by bits 11..9
WritesDr(inst) == Bits(inst, 15, 12) \in {1, 5, 9, 2, 10, 6, 14}

\* C4 as claimed: after every instruction that writes a general register, JSR,
\* JSRR and TRAP (which write R7) included, COND is the sign flag of the value
\* written.
C4_CondFollowsEveryWrite ==
    Executed =>
      /\ WritesDr(instruction)
           => registers[R_COND] = SignFlag(registers[Bits(instruction, 11, 9)])
      /\ (Bits(instruction, 15, 12) = 15 /\ TrapCode(instruction) = 32)
           => registers[R_COND] = SignFlag(registers[0])
      /\ (Bits(instruction, 15, 12) = 4
          \/ (Bits(instruction, 15, 12) = 15 /\ TrapCode(instruction) # 32))
           => registers[R_COND] = SignFlag(registers[7])

\* C4 amended: after ADD, AND, NOT, LD, LDI, LDR, LEA COND is the sign flag of
\* the new value of the destination register, after the GETC routine that of
\* R0; JSR, JSRR and the other traps write R7 and leave COND as it was.
C4_CondFollowsDestination ==
    [][(ctl = "exec" /\ ctl' = "loop")
         => /\ WritesDr(instruction)
                 => registers'[R_COND] = SignFlag(registers'[Bits(instruction, 11, 9)])
            /\ (Bits(instruction, 15, 12) = 15 /\ TrapCode(instruction) = 32)
                 => registers'[R_COND] = SignFlag(registers'[0])
            /\ (Bits(instruction, 15, 12) = 4
                \/ (Bits(instruction, 15, 12) = 15 /\ TrapCode(instruction) # 32))
                 => /\ registers'[R_COND] = registers[R_COND]
                    /\ registers'[7] = registers[R_PC]]_vars

\* C4 witness: a JSR has written a positive R7 while COND stays negative
C4_Witness ==
    /\ Executed
    /\ Bits(instruction, 15, 12) = 4
    /\ registers[R_COND] = 4
    /\ SignFlag(registers[7]) = 1

\* the address a PC-relative instruction forms from the program counter pc
PcRelative9(pc, inst) == (pc + sign_extend_bits(9, Bits(inst, 8, 0))) % 65536

\* the pointer LDI and STI fetch from address a (a read of KBSR polls the
\* keyboard first, so the value fetched there is the one the poll leaves)
PointerAt(a) == IF a = 65024 THEN MemGet(memory', a) ELSE MemGet(memory, a)

\* C5: a fetch reads the instruction at PC and leaves PC at (PC + 1) mod 2^16,
\* and the instruction then executed forms every PC-relative operand (BR, LD,
\* ST, LDI, STI, LEA, JSR) from that post-increment PC.
C5_PcAdvancesBeforeExecute ==
    [][/\ (ctl = "loop" /\ ctl' = "exec")
           => /\ registers'[R_PC] = (registers[R_PC] + 1) % 65536
              /\ instruction' = MemGet(memory', registers[R_PC])
       /\ (ctl = "exec" /\ ctl' = "loop")
           => LET pc == registers[R_PC]
                  op == Bits(instruction, 15, 12)
                  r == Bits(instruction, 11, 9)
                  a == PcRelative9(pc, instruction)
              IN  /\ (op = 0 /\ registers'[R_PC] # pc) => registers'[R_PC] = a
                  /\ op = 2 => registers'[r] = MemGet(memory', a)
                  /\ op = 3 => MemGet(memory', a) = registers[r]
                  /\ op = 10 => registers'[r] = MemGet(memory', PointerAt(a))
                  /\ op = 11 => MemGet(memory', PointerAt(a)) = registers[r]
                  /\ op = 14 => registers'[r] = a
                  /\ (op = 4 /\ Bits(instruction, 11, 11) = 1)
                       => registers'[R_PC] =
                            (pc + sign_extend_bits(11, Bits(instruction, 10, 0))) % 65536]_vars

\* C5 witness: an instruction was fetched at 0xFFFF and PC wrapped to 0
C5_Witness == ctl = "exec" /\ registers[R_PC] = 0 /\ steps = 3

\* C6: the interrupt handler, whenever it runs, leaves the terminal in its
\* original mode and ends the process with a non-zero status.
C6_InterruptRestoresTerminal ==
    HandlerExited => (tio = HostTio /\ exit_code # <<0>>)

\* ORIGIN: the big-endian value of the first two bytes of the image
Origin(bytes) == BigEndian(bytes, 1)

\* the words of the image that follow ORIGIN and fit below the end of memory
ImageWords(bytes) == Min(65536 - Origin(bytes), (Len(bytes) - 2) \div 2)

\* the image was opened and read
Loaded == file.exists /\ ctl = "loaded"

\* C7: after the load, memory[ORIGIN + i] is the big-endian value of the i-th
\* byte pair that follows ORIGIN.
C7_LoadedBigEndianAtOrigin ==
    (Loaded /\ Len(file.bytes) >= 2)
      => \A i \in 0 .. ImageWords(file.bytes) - 1 :
            MemGet(memory, Origin(file.bytes) + i) = BigEndian(file.bytes, 3 + 2 * i)

\* C8: an image that cannot be opened, is empty or is too short for an ORIGIN
\* word makes the load fail: main goes no further than exit(1), with the
\* terminal, the registers and the memory untouched.
C8_ShortImageFails ==
    (argc >= 2 /\ (~file.exists \/ Len(file.bytes) < 2))
      => /\ ctl \in {"main", "exited"}
         /\ ctl = "exited" => exit_code = <<1>>
         /\ tio = HostTio
         /\ steps = 0
         /\ registers = [r \in 0 .. 9 |-> 0]
         /\ memory = ZeroMemory

\* C9: the loader writes only the cells memory[ORIGIN .. ORIGIN + n - 1], n the
\* number of whole words that follow ORIGIN and at most 65536 - ORIGIN: every
\* cell outside that range is still zero after the load.
C9_LoadStaysInRange ==
    (Loaded /\ Len(file.bytes) >= 2)
      => \A a \in DOMAIN memory :
            /\ Origin(file.bytes) <= a
            /\ a < Origin(file.bytes) + ImageWords(file.bytes)

\* the address a load instruction reads its result from
LoadAddress ==
    LET op == Bits(instruction, 15, 12)
    IN  IF op = 2 THEN PcRelative9(registers[R_PC], instruction)
        ELSE IF op = 6
        THEN (registers[Bits(instruction, 8, 6)]
              + sign_extend_bits(6, Bits(instruction, 5, 0))) % 65536
        ELSE MemGet(memory, PcRelative9(registers[R_PC], instruction))

\* C10: a load (LD, LDR, LDI) whose result is memory_read(KBSR): with no key
\* pending it yields 0, sets memory[KBSR] to 0 and leaves memory[KBDR] and the
\* input alone; with a key pending it yields 0x8000, sets memory[KBSR] to
\* 0x8000, takes one character off the input and stores it in memory[KBDR].
C10_KbsrPoll ==
    [][(/\ ctl = "exec" /\ ctl' = "loop"
        /\ Bits(instruction, 15, 12) \in {2, 6, 10}
        /\ LoadAddress = 65024)
         => LET dr == Bits(instruction, 11, 9)
            IN  IF Len(stdin) = 0
                THEN /\ registers'[dr] = 0
                     /\ MemGet(memory', 65024) = 0
                     /\ MemGet(memory', 65026) = MemGet(memory, 65026)
                     /\ stdin' = stdin
                ELSE /\ registers'[dr] = 32768
                     /\ MemGet(memory', 65024) = 32768
                     /\ MemGet(memory', 65026) = Head(stdin)
                     /\ stdin' = Tail(stdin)]_vars

\* the n-bit field v as a 16-bit two's-complement word: bit n-1 is copied into
\* bits n..15
Sext(v, n) == IF v >= Pow2(n - 1) THEN v + 65536 - Pow2(n) ELSE v

\* the step that executes an instruction of opcode op
Executes(op) == ctl = "exec" /\ ctl' = "loop" /\ Bits(instruction, 15, 12) = op

\* C11: ADD sets dr to (sr1 + sr2) mod 2^16 in register mode and to
\* (sr1 + sext(imm5,5)) mod 2^16 in immediate mode, and COND to the sign flag
\* of dr (so ADD R0,R0,#-1 on R0 = 0 gives 0xFFFF and NEG).
C11_AddWraps ==
    [][Executes(1)
         => LET dr == Bits(instruction, 11, 9)
                sr1 == registers[Bits(instruction, 8, 6)]
                operand == IF Bits(instruction, 5, 5) = 1
                           THEN Sext(Bits(instruction, 4, 0), 5)
                           ELSE registers[Bits(instruction, 2, 0)]
            IN  /\ registers'[dr] = (sr1 + operand) % 65536
                /\ registers'[R_COND] = SignFlag(registers'[dr])]_vars

\* C12: AND in immediate mode with imm5 = 0x1F is the identity: dr after the
\* instruction is the value sr1 had before it.
C12_AndAllOnesIsIdentity ==
    [][(Executes(5) /\ Bits(instruction, 5, 0) = 63)
         => registers'[Bits(instruction, 11, 9)]
              = registers[Bits(instruction, 8, 6)]]_vars

C14_BrTargetSignExtended ==
    [][(Executes(0)
        /\ (Bits(instruction, 11, 9) \div registers[R_COND]) % 2 = 1)
         => registers'[R_PC]
              = (registers[R_PC] + Sext(Bits(instruction, 8, 0), 9)) % 65536]_vars

\* C15: JMP sets PC to the value of the register named by bits 8..6 (RET, with
\* bits 8..6 = 7, to the value of R7: the address a JSR, JSRR or TRAP saved).
C15_JmpBaseRegister ==
    [][Executes(12)
         => registers'[R_PC] = registers[Bits(instruction, 8, 6)]]_vars

\* C16: JSR and JSRR set R7 to the post-increment PC; JSR then sets PC to
\* (post-increment PC + sext(off11,11)) mod 2^16, JSRR to the value the
\* register named by bits 8..6 holds once R7 is written.
C16_JsrSavesThenJumps ==
    [][Executes(4)
         => LET pc == registers[R_PC]
                saved == [registers EXCEPT ![7] = pc]
            IN  /\ registers'[7] = pc
                /\ registers'[R_PC] =
                     IF Bits(instruction, 11, 11) = 1
                     THEN (pc + Sext(Bits(instruction, 10, 0), 11)) % 65536
                     ELSE saved[Bits(instruction, 8, 6)]]_vars

\* C17: STR stores the value of the register named by bits 11..9 into
\* memory[(baseR + sext(off6,6)) mod 2^16], baseR named by bits 8..6.
C17_StrStoresSr ==
    [][Executes(7)
         => MemGet(memory', (registers[Bits(instruction, 8, 6)]
                             + Sext(Bits(instruction, 5, 0), 6)) % 65536)
              = registers[Bits(instruction, 11, 9)]]_vars

\* the instruction fetched before the one now in execution, as the line the
\* loop prints at every fetch records it, when nothing was printed since
\* (0 when there is none)
PreviousFetched ==
    LET k == Len(out) - 1
    IN  IF /\ k >= 1
           /\ "cout" \in DOMAIN out[k]
           /\ out[k].cout = "opcode instruction"
        THEN out[k].args[2]
        ELSE 0

\* the effective address of the ST executed just before the instruction now in
\* execution (ST leaves PC alone, so its post-increment PC is this PC minus 1)
StoreAddress == PcRelative9((registers[R_PC] + 65535) % 65536, PreviousFetched)

\* the step that executes LD dr right after ST sr to the same effective
\* address, dr # sr
StoreThenLoad ==
    /\ Executes(2)
    /\ Bits(PreviousFetched, 15, 12) = 3
    /\ Bits(PreviousFetched, 11, 9) # Bits(instruction, 11, 9)
    /\ StoreAddress = PcRelative9(registers[R_PC], instruction)

\* C18 as claimed: for every PC, registers sr # dr and effective address, ST sr
\* followed by LD dr from the same effective address leaves dr equal to sr.
C18_StoreLoadRoundTrip ==
    [][StoreThenLoad
         => registers'[Bits(instruction, 11, 9)]
              = registers[Bits(PreviousFetched, 11, 9)]]_vars

\* C18 amended: ST sr followed by LD dr from the same effective address, other
\* than KBSR, leaves dr equal to sr.
C18_StoreLoadRoundTripBelowKbsr ==
    [][(StoreThenLoad /\ StoreAddress # 65024)
         => registers'[Bits(instruction, 11, 9)]
              = registers[Bits(PreviousFetched, 11, 9)]]_vars

\* C18 witness: ST R0,#1 then LD R1,#0 have moved 0xFFFF from R0 through the
\* cell 0x3003 into R1
C18_Witness ==
    /\ Executed
    /\ instruction = 8704
    /\ Bits(PreviousFetched, 15, 12) = 3
    /\ registers[R_PC] = 12291
    /\ MemGet(memory, 12291) = 65535
    /\ registers[1] = 65535

\* C19: LDI and STI make two memory accesses in program order: the pointer p is
\* read at (post-increment PC + sext(off9,9)) mod 2^16 first; then LDI sets dr
\* to the value read at p and COND to its sign flag, and STI writes sr to
\* memory[p].
C19_IndirectThroughPointer ==
    [][(Executes(10) \/ Executes(11))
         => LET r == Bits(instruction, 11, 9)
                a == (registers[R_PC] + Sext(Bits(instruction, 8, 0), 9)) % 65536
                p == PointerAt(a)
            IN  IF Bits(instruction, 15, 12) = 10
                THEN /\ registers'[r] = MemGet(memory', p)
                     /\ registers'[R_COND] = SignFlag(registers'[r])
                ELSE MemGet(memory', p) = registers[r]]_vars

\* C20: the trap routine is selected by bits 7..0 of the instruction alone:
\* every instruction of opcode 0xF whose bits 7..0 are 0x21 runs OUT and writes
\* the low byte of R0 to the output, whatever bits 11..8 hold.
C20_TrapVectorIsLowByte ==
    [][(Executes(15) /\ Bits(instruction, 7, 0) = 33)
         => out' = Append(out, [putc |-> registers[0] % 256])]_vars

\* C21: after TRAP x20 (GETC), whatever the host's character read returns, R0
\* holds the character with its high byte zero and COND is the sign flag of R0.
C21_GetcHighByteZero ==
    [][(Executes(15) /\ instruction = 61472)
         => /\ registers'[0] <= 255
            /\ registers'[R_COND] = SignFlag(registers'[0])]_vars

\* the string at address a: the low bytes of the words from a on, addresses
\* modulo 2^16, up to the first zero word (at most n words)
RECURSIVE StringAt(_, _, _)
StringAt(m, a, n) ==
    IF n = 0 \/ MemGet(m, a) = 0 THEN << >>
    ELSE <<[putc |-> MemGet(m, a) % 256]>> \o StringAt(m, (a + 1) % 65536, n - 1)

\* C22: TRAP x22 (PUTS) writes the low byte of each word memory[R0],
\* memory[R0+1], ... in order, up to but excluding the first zero word, and
\* changes no memory cell and no register other than R7.
C22_PutsWritesString ==
    [][(Executes(15) /\ instruction = 61474)
         => /\ out' = out \o StringAt(memory, registers[0], 65536)
            /\ memory' = memory
            /\ \A r \in (0 .. 9) \ {7} : registers'[r] = registers[r]]_vars

\* C23: TRAP x23 (IN) writes the prompt "Enter a character: " to the output,
\* reads one character from the input, stores it in R0 with the high byte zero
\* and sets COND to the sign flag of R0.
C23_InPromptsAndReads ==
    [][(Executes(15) /\ instruction = 61475)
         => /\ Len(out') > Len(out)
            /\ out'[Len(out) + 1] = [cout |-> "Enter a character: ", args |-> << >>]
            /\ Len(stdin) > 0 => (stdin' = Tail(stdin) /\ registers'[0] = Head(stdin))
            /\ registers'[0] <= 255
            /\ registers'[R_COND] = SignFlag(registers'[0])]_vars

\* the width of the immediate field the instruction inst has sign-extended
\* (0 when it has none); the field is the low FieldWidth(inst) bits of inst
FieldWidth(inst) ==
    LET op == Bits(inst, 15, 12)
    IN  IF op \in {1, 5} THEN (IF Bits(inst, 5, 5) = 1 THEN 5 ELSE 0)
        ELSE IF op \in {6, 7} THEN 6
        ELSE IF op \in {0, 2, 3, 10, 11, 14} THEN 9
        ELSE IF op = 4 THEN (IF Bits(inst, 11, 11) = 1 THEN 11 ELSE 0)
        ELSE 0

\* the immediate field of inst
Field(inst) == inst % Pow2(FieldWidth(inst))

\* an instruction with an immediate field is being executed
Extends == ctl = "exec" /\ FieldWidth(instruction) > 0

\* C24: for every n in {5, 6, 9, 11} and every n-bit value v,
\* sign_extend_bits(n, v) is the word whose low n bits are v and whose bits
\* n..15 all equal bit n-1 of v.
C24_SignExtendReplicatesSign ==
    Extends
      => LET n == FieldWidth(instruction)
             v == Field(instruction)
             w == sign_extend_bits(n, v)
         IN  /\ w \in 0 .. 65535
             /\ w % Pow2(n) = v
             /\ w \div Pow2(n) = (IF v >= Pow2(n - 1) THEN Pow2(16 - n) - 1 ELSE 0)

\* C25: for every n in {5, 6, 9, 11} and every n-bit value v,
\* sext(sext(v,n) & mask_n, n) = sext(v,n), with mask_n = 2^n - 1.
C25_SignExtendIdempotent ==
    Extends
      => LET n == FieldWidth(instruction)
             v == Field(instruction)
         IN  sign_extend_bits(n, sign_extend_bits(n, v) % Pow2(n))
               = sign_extend_bits(n, v)

\* C25 witness: the 11-bit field 0x7FF of a JSR is being extended
C25_Witness == Extends /\ FieldWidth(instruction) = 11 /\ Field(instruction) = 2047

\* the address the loader places the first word at: the first two bytes of the
\* image as the host reads them
PlacedAt(bytes) == bytes[1] + 256 * bytes[2]

\* the number of words the loader reads: those that follow the first two bytes
\* and fit below the end of memory
WordsRead(bytes) == Min(65536 - PlacedAt(bytes), (Len(bytes) - 2) \div 2)

\* C26: every word the loader places in memory is byte-swapped exactly once (it
\* holds the value of its byte pair, high byte first), for every number n of
\* words read, 0 <= n <= 65536 - ORIGIN, n = 65536 with ORIGIN = 0 included.
C26_SwappedExactlyOnce ==
    (Loaded /\ Len(file.bytes) >= 2)
      => \A i \in 0 .. WordsRead(file.bytes) - 1 :
            MemGet(memory, PlacedAt(file.bytes) + i) = BigEndian(file.bytes, 3 + 2 * i)

\* the memory cells a store instruction may change: the cell it addresses and,
\* for an STI whose pointer is read at KBSR, the cells KBSR and KBDR
StoreCells ==
    LET op == Bits(instruction, 15, 12)
        a == PcRelative9(registers[R_PC], instruction)
    IN  IF op = 3 THEN {a}
        ELSE IF op = 7
        THEN {(registers[Bits(instruction, 8, 6)]
               + sign_extend_bits(6, Bits(instruction, 5, 0))) % 65536}
        ELSE IF op = 11
        THEN {PointerAt(a)} \cup (IF a = 65024 THEN {65024, 65026} ELSE {})
        ELSE {}

\* C27: BR, JMP, ST, STI and STR change no general register R0..R7 and not
\* COND; BR and JMP change no memory cell; ST, STI and STR change only the cell
\* they address (and KBSR, KBDR when the pointer of STI is read at KBSR).
C27_StoreAndJumpFrame ==
    [][(ctl = "exec" /\ ctl' = "loop" /\ Bits(instruction, 15, 12) \in {0, 12, 3, 11, 7})
         => /\ \A r \in (0 .. 7) \cup {9} : registers'[r] = registers[r]
            /\ \A a \in ((DOMAIN memory) \cup (DOMAIN memory')) \ StoreCells :
                  MemGet(memory', a) = MemGet(memory, a)]_vars

\* C27 witness: ST R0,#0 at 0x3001 has stored 0xFFFF in the cell 0x3002
C27_Witness ==
    /\ Executed
    /\ instruction = 12288
    /\ registers[0] = 65535
    /\ registers[R_PC] = 12290
    /\ MemGet(memory, 12290) = 65535

\* C28: JSRR with baseR = R7 leaves PC at the post-increment PC, which R7 then
\* holds as well; it does not jump to the value R7 held before.
C28_JsrrR7FallsThrough ==
    [][(Executes(4) /\ Bits(instruction, 11, 11) = 0 /\ Bits(instruction, 8, 6) = 7)
         => /\ registers'[R_PC] = registers[R_PC]
            /\ registers'[7] = registers[R_PC]]_vars

\* C28 witness: TRAP x25 at 0x3000 left 0x3001 in R7, and JSRR R7 at 0x3001 has
\* gone on to 0x3002
C28_Witness ==
    /\ Executed
    /\ instruction = 16832
    /\ PreviousFetched = 61477
    /\ registers[R_PC] = 12290
    /\ registers[7] = 12290

\* C29: every memory access uses an index within 0..0xFFFF: the instruction
\* fetch, the cells LD/LDI/LDR read and ST/STI/STR and the keyboard poll write,
\* and every word the walk of PUTS reads, the walk over a string that no zero
\* word ends before 0xFFFF included.
C29_AccessesInRange ==
    [][/\ (ctl = "loop" /\ ctl' = "exec") => registers[R_PC] \in 0 .. 65535
       /\ (ctl = "exec" /\ ctl' = "loop")
            => /\ DOMAIN memory' \subseteq 0 .. 65535
               /\ (Bits(instruction, 15, 12) = 15 /\ TrapCode(instruction) = 34)
                    => PutsEnd(memory, registers[0]) \in 0 .. 65535]_vars

====
